---------------------------- MODULE Spec2Model ----------------------------
(***************************************************************************)
(* simpilrs: the simpIL tree-walking interpreter (src/src/interpreter.rs)  *)
(* as a state machine over the syntax of src/src/syntax.rs.                *)
(***************************************************************************)
EXTENDS Integers, Sequences, FiniteSets, TLC

(***************************************************************************)
(* Bounds of the model.                                                    *)
(***************************************************************************)
\* longest program drawn in Init
MaxLen == 2
\* cap on the number of statement executions of one run (length of res)
MaxSteps == 4
\* literals 0..MaxVal (and MaxWord) appear in the programs
MaxVal == 2

\* the largest value of the scalar type: simpIL values are u32 (Expr::Val(u32)),
\* scaled here to a word whose sums and products TLC's integers can hold
MaxWord == 255

Vals == (0 .. MaxVal) \cup {MaxWord}
Names == {"x"}
Addrs == 1 .. MaxVal

(***************************************************************************)
(* Syntax: tokens, expressions, statements.                                *)
(***************************************************************************)
OpToken(t) == [token_type |-> t]
Identifier(n) == [token_type |-> "Identifier", ident |-> n, lexeme |-> n]

Val(v) == [kind |-> "Val", v |-> v]
Var(n) == [kind |-> "Var", name |-> n]
Load(e) == [kind |-> "Load", addr |-> e]
Binary(l, op, r) == [kind |-> "Binary", lhs |-> l, op |-> OpToken(op), rhs |-> r]
Unary(op, e) == [kind |-> "Unary", op |-> OpToken(op), operand |-> e]
GetInput == [kind |-> "GetInput", source |-> "stdin"]

StmtAssignment(id, e) == [kind |-> "Assignment", identifier |-> id, expr |-> e]
StmtStore(r, v) == [kind |-> "Store", reg |-> r, val |-> v]
StmtGoto(e) == [kind |-> "Goto", target |-> e]
StmtAssert(e) == [kind |-> "Assert", cond |-> e]
StmtIfThenElse(c, l, r) == [kind |-> "IfThenElse", cond |-> c, then |-> l, else |-> r]

(***************************************************************************)
(* The Interpreter's fields (interpreter.rs:6-11), the local res of visit, *)
(* and what surrounds a run:                                               *)
(*   outcome          "running", "returned" (visit returned res),          *)
(*                    "exit_1337" (std::process::exit(1337)) or the panic  *)
(*                    that unwound the run                                 *)
(*   stdin            "unread", or "eof" once read_to_string has drained   *)
(*                    it                                                   *)
(*   overflow_checks  whether the build panics on u32 overflow (debug) or  *)
(*                    wraps (release)                                      *)
(***************************************************************************)
VARIABLES statements, registers, vars, program_counter, res, outcome, stdin,
          overflow_checks

interpVars == <<statements, registers, vars, program_counter, res, outcome, stdin,
                overflow_checks>>

(***************************************************************************)
(* The Scanner's fields (scanner.rs:21-27) and what a consumer of the      *)
(* iterator has got from it:                                               *)
(*   tokens        the tokens next() has returned so far                   *)
(*   scan_outcome  "pulling", "none" (next() returned None) or the panic   *)
(***************************************************************************)
VARIABLES source, start, current, line, column, tokens, scan_outcome

scanVars == <<source, start, current, line, column, tokens, scan_outcome>>

(***************************************************************************)
(* The Parser's field (parser.rs:60-62) and what a consumer has got:       *)
(*   scanner        the tokens the Peekable<Scanner> has still to give     *)
(*   given          the tokens it was constructed with                     *)
(*   stmts          the statements next() has returned so far              *)
(*   expr           what a call of expression() on the new parser returned *)
(*   parse_outcome  "pulling", "none" (next() returned None), "expr" (the  *)
(*                  call of expression() returned) or the panic            *)
(***************************************************************************)
VARIABLES scanner, given, stmts, expr, parse_outcome

parseVars == <<scanner, given, stmts, expr, parse_outcome>>

allVars == <<interpVars, scanVars, parseVars>>

(***************************************************************************)
(* Outcomes of evaluating an expression: a u32 value, or a panic.  rd says *)
(* whether the evaluation read the external input (stdin) to its end.      *)
(***************************************************************************)
Value(v, rd) == [ok |-> TRUE, v |-> v, err |-> "", rd |-> rd]
Panic(msg, rd) == [ok |-> FALSE, v |-> 0, err |-> msg, rd |-> rd]

\* what read_to_string + parse::<u32> can give: a number, or text that is none
Parsed(v) == [ok |-> TRUE, v |-> v]
Malformed == [ok |-> FALSE, v |-> 0]
StdinContents == {Parsed(v) : v \in 0 .. MaxVal} \cup {Malformed}

\* u32 `+ - * /`: overflow panics when the build checks it and wraps when not
Wrap(n, oc, rd) ==
    IF n >= 0 /\ n <= MaxWord THEN Value(n, rd)
    ELSE IF oc THEN Panic("overflow", rd)
    ELSE Value(n % (MaxWord + 1), rd)

BinaryOp(op, l, r, oc, rd) ==
    CASE op = "Plus" -> Wrap(l + r, oc, rd)
      [] op = "Minus" -> Wrap(l - r, oc, rd)
      [] op = "Star" -> Wrap(l * r, oc, rd)
      [] op = "Slash" -> IF r = 0 THEN Panic("div_zero", rd) ELSE Value(l \div r, rd)
      [] OTHER -> Panic("invalid_binary_token", rd)

RECURSIVE visit_expr(_, _, _, _, _)
visit_expr(e, regs, vs, inp, oc) ==
    CASE e.kind = "Load" ->
           LET a == visit_expr(e.addr, regs, vs, inp, oc)
           IN  IF ~a.ok THEN a
               ELSE IF a.v \in DOMAIN regs THEN Value(regs[a.v], a.rd)
               ELSE Panic("unwrap_none", a.rd)
      [] e.kind = "Binary" ->
           LET l == visit_expr(e.lhs, regs, vs, inp, oc)
           IN  IF ~l.ok THEN l
               ELSE LET r == visit_expr(e.rhs, regs, vs,
                                        IF l.rd THEN Malformed ELSE inp, oc)
                    IN  IF ~r.ok THEN [r EXCEPT !.rd = l.rd \/ r.rd]
                        ELSE BinaryOp(e.op.token_type, l.v, r.v, oc, l.rd \/ r.rd)
      [] e.kind = "Unary" -> visit_expr(e.operand, regs, vs, inp, oc)
      [] e.kind = "Var" ->
           IF e.name \in DOMAIN vs THEN Value(vs[e.name], FALSE)
           ELSE Panic("unwrap_none", FALSE)
      [] e.kind = "GetInput" ->
           IF inp.ok THEN Value(inp.v, TRUE) ELSE Panic("stdin_parse", TRUE)
      [] e.kind = "Val" -> Value(e.v, FALSE)


(***************************************************************************)
(* The programs the interpreter is constructed with.                       *)
(***************************************************************************)
Lits == {Val(v) : v \in Vals}
Reads == {Var(n) : n \in Names} \cup {Load(Val(1)), GetInput}
Arith == {Binary(Val(MaxWord), "Plus", Val(1)), Binary(Val(0), "Minus", Val(1)),
          Binary(Val(MaxWord), "Star", Val(2)), Binary(Val(1), "Slash", Val(0)),
          Binary(GetInput, "Plus", Val(1)), Unary("Minus", Val(1))}

StmtSet ==
    {StmtAssignment(Identifier(n), e) : n \in Names, e \in {Val(1), Val(2), Var("x")}}
    \cup {StmtStore(Val(a), Val(v)) : a \in Addrs, v \in 1 .. MaxVal}
    \cup {StmtGoto(e) : e \in Lits \cup Reads \cup Arith}
    \cup {StmtAssert(e) : e \in {Val(v) : v \in 0 .. MaxVal} \cup {Load(Val(1)), GetInput}}
    \cup {StmtIfThenElse(Val(c), b[1], b[2]) :
            c \in 0 .. MaxVal, b \in {<<GetInput, Var("x")>>, <<Load(Val(2)), GetInput>>}}

RECURSIVE SeqsUpTo(_, _)
SeqsUpTo(S, n) ==
    IF n = 0 THEN {<<>>}
    ELSE LET shorter == SeqsUpTo(S, n - 1)
         IN  shorter \cup {Append(p, s) : p \in {q \in shorter : Len(q) = n - 1}, s \in S}

Programs == SeqsUpTo(StmtSet, MaxLen)

EmptyMap == <<>>

\* a map that holds the new binding alone
MapInsertOnly(m, k, v) == [x \in {k} |-> v]

\* a map that keeps the binding a key already has
MapInsertIfAbsent(m, k, v) ==
    [x \in DOMAIN m \cup {k} |-> IF x \in DOMAIN m THEN m[x] ELSE v]

\* HashMap::insert: the map afterwards
MapInsert(m, k, v) == [x \in DOMAIN m \cup {k} |-> IF x = k THEN v ELSE m[x]]

Panics == {"unwrap_none", "overflow", "div_zero", "stdin_parse", "invalid_binary_token"}

\* no scanner and no parser at work
ScanIdle ==
    /\ source = <<>> /\ start = 0 /\ current = 0 /\ line = 1 /\ column = 0
    /\ tokens = <<>> /\ scan_outcome = "none"

ParseIdle ==
    /\ scanner = <<>> /\ given = <<>> /\ stmts = <<>> /\ expr = <<>>
    /\ parse_outcome = "none"

\* Interpreter::new, before visit is called
Init ==
    /\ ScanIdle /\ ParseIdle
    /\ statements \in Programs
    /\ registers = EmptyMap
    /\ vars = EmptyMap
    /\ program_counter = 0
    /\ res = <<>>
    /\ outcome = "running"
    /\ stdin = "unread"
    /\ overflow_checks \in BOOLEAN

\* the loop test of visit and the fetch of the statement at the counter
Fetch(k) ==
    /\ outcome = "running"
    /\ program_counter < Len(statements)
    /\ Len(res) < MaxSteps
    /\ statements[program_counter + 1].kind = k

statement == statements[program_counter + 1]

\* what a read of stdin gives now: its content once, nothing after that
Reading(inp) == IF stdin = "unread" THEN inp ELSE Malformed

eval(e, inp) == visit_expr(e, registers, vars, Reading(inp), overflow_checks)

\* a counter that is not incremented
NextCounterStuck(pc) == pc

\* visit_stmt, first line: `self.program_counter += 1`
NextCounter(pc) == pc + 1

\* evaluation of a second operand, after one that may have read stdin
eval_after(e, inp, rd) ==
    visit_expr(e, registers, vars, IF rd THEN Malformed ELSE Reading(inp),
               overflow_checks)

\* `self.program_counter += 1`, then a panic while evaluating: the run is over
Unwind(r) ==
    /\ outcome' = r.err
    /\ program_counter' = NextCounter(program_counter)
    /\ stdin' = IF r.rd THEN "eof" ELSE stdin
    /\ UNCHANGED <<statements, registers, vars, res, overflow_checks>>

\* Stmt::Assignment: insert, then unwrap the previous binding
ExecAssignment ==
    /\ Fetch("Assignment")
    /\ UNCHANGED <<scanVars, parseVars>>
    /\ \E inp \in StdinContents :
         LET r == eval(statement.expr, inp)
             key == statement.identifier.lexeme
         IN  IF ~r.ok THEN Unwind(r)
             ELSE /\ program_counter' = NextCounter(program_counter)
                  /\ vars' = MapInsert(vars, key, r.v)
                  /\ stdin' = IF r.rd THEN "eof" ELSE stdin
                  /\ IF key \in DOMAIN vars
                     THEN /\ res' = Append(res, vars[key])
                          /\ outcome' = outcome
                     ELSE /\ res' = res
                          /\ outcome' = "unwrap_none"
                  /\ UNCHANGED <<statements, registers, overflow_checks>>

\* Stmt::Store
ExecStore ==
    /\ Fetch("Store")
    /\ UNCHANGED <<scanVars, parseVars>>
    /\ \E inp \in StdinContents :
         LET reg == eval(statement.reg, inp)
             val == eval_after(statement.val, inp, reg.rd)
         IN  IF ~reg.ok THEN Unwind(reg)
             ELSE IF ~val.ok THEN Unwind([val EXCEPT !.rd = reg.rd \/ val.rd])
             ELSE /\ program_counter' = NextCounter(program_counter)
                  /\ registers' = MapInsert(registers, reg.v, val.v)
                  /\ res' = Append(res, val.v)
                  /\ stdin' = IF reg.rd \/ val.rd THEN "eof" ELSE stdin
                  /\ UNCHANGED <<statements, vars, outcome, overflow_checks>>

\* a Goto that leaves the counter at the next statement
GotoCounterKept(e, next) == next

\* Stmt::Goto: the counter after `self.program_counter = e as usize`
GotoCounter(e, next) == e

ExecGoto ==
    /\ Fetch("Goto")
    /\ UNCHANGED <<scanVars, parseVars>>
    /\ \E inp \in StdinContents :
         LET e == eval(statement.target, inp)
         IN  IF ~e.ok THEN Unwind(e)
             ELSE /\ program_counter' = GotoCounter(e.v, NextCounter(program_counter))
                  /\ res' = Append(res, e.v)
                  /\ stdin' = IF e.rd THEN "eof" ELSE stdin
                  /\ UNCHANGED <<statements, registers, vars, outcome, overflow_checks>>

\* an assertion that accepts every value but 0
AssertHoldsNonZero(e) == e # 0

\* Stmt::Assert: the test `e == 1`
AssertHolds(e) == e = 1

ExecAssert ==
    /\ Fetch("Assert")
    /\ UNCHANGED <<scanVars, parseVars>>
    /\ \E inp \in StdinContents :
         LET e == eval(statement.cond, inp)
         IN  IF ~e.ok THEN Unwind(e)
             ELSE /\ program_counter' = NextCounter(program_counter)
                  /\ stdin' = IF e.rd THEN "eof" ELSE stdin
                  /\ IF AssertHolds(e.v)
                     THEN /\ res' = Append(res, e.v)
                          /\ outcome' = outcome
                     ELSE /\ res' = res
                          /\ outcome' = "exit_1337"
                  /\ UNCHANGED <<statements, registers, vars, overflow_checks>>

\* a conditional that takes every cond but 0 for true
IfThenElseTruthy(cond, s, inp, rd) ==
    IF cond # 0 THEN eval_after(s.then, inp, rd)
    ELSE eval_after(s.else, inp, rd)

\* Stmt::IfThenElse: the value of the statement once cond is known
IfThenElseValue(cond, s, inp, rd) ==
    IF cond = 1 THEN eval_after(s.then, inp, rd)
    ELSE IF cond = 0 THEN eval_after(s.else, inp, rd)
    ELSE Value(0, FALSE)

\* a conditional that jumps to the value of its branch
IfThenElseJumps(v, next) == v

\* Stmt::IfThenElse: the counter afterwards, which the statement does not assign
IfThenElseCounter(v, next) == next

ExecIfThenElse ==
    /\ Fetch("IfThenElse")
    /\ UNCHANGED <<scanVars, parseVars>>
    /\ \E inp \in StdinContents :
         LET cond == eval(statement.cond, inp)
             v == IfThenElseValue(cond.v, statement, inp, cond.rd)
         IN  IF ~cond.ok THEN Unwind(cond)
             ELSE IF ~v.ok THEN Unwind([v EXCEPT !.rd = cond.rd \/ v.rd])
             ELSE /\ program_counter' = IfThenElseCounter(v.v, NextCounter(program_counter))
                  /\ res' = Append(res, v.v)
                  /\ stdin' = IF cond.rd \/ v.rd THEN "eof" ELSE stdin
                  /\ UNCHANGED <<statements, registers, vars, outcome, overflow_checks>>

\* visit: the loop test fails and res is returned
Return ==
    /\ outcome = "running"
    /\ program_counter >= Len(statements)
    /\ outcome' = "returned"
    /\ UNCHANGED <<statements, registers, vars, program_counter, res, stdin,
                   overflow_checks>>
    /\ UNCHANGED <<scanVars, parseVars>>

Next ==
    \/ ExecAssignment
    \/ ExecStore
    \/ ExecGoto
    \/ ExecAssert
    \/ ExecIfThenElse
    \/ Return

Spec == Init /\ [][Next]_allVars

(***************************************************************************)
(* Properties of the interpreter.                                          *)
(***************************************************************************)
\* Load(Val(a)) evaluated on the registers regs
load(a, regs) == visit_expr(Load(Val(a)), regs, vars, Malformed, overflow_checks)

\* C1: after Assignment(x, Val(v)) on empty vars, a statement whose expression
\* is Var(x) completes and yields v: neither statement panics, and the second
\* result is v.
C1_AssignmentRoundTrip ==
    \A n \in Names, v \in 1 .. MaxVal :
        (/\ Len(statements) >= 2
         /\ statements[1] = StmtAssignment(Identifier(n), Val(v))
         /\ statements[2] = StmtGoto(Var(n)))
        => /\ Len(res) < 2 => outcome = "running"
           /\ Len(res) >= 2 => res[2] = v

\* C2: executing Assignment(name, expr) whose expr evaluates to a value always
\* succeeds, bound or not: afterwards vars[name] is that value and the value
\* appended to res is that value.
C2_AssignmentSucceeds ==
    [][Fetch("Assignment") =>
          \E inp \in StdinContents :
              LET r == eval(statement.expr, inp)
                  key == statement.identifier.lexeme
              IN  \/ ~r.ok /\ outcome' = r.err
                  \/ /\ r.ok
                     /\ outcome' = "running"
                     /\ key \in DOMAIN vars'
                     /\ vars'[key] = r.v
                     /\ res' = Append(res, r.v)]_interpVars

\* the addresses a program of the model can store to or load from
AddrSpace == Vals

\* C3: a Store that completes yields the stored value v, and Load of its
\* address then gives v; a Store to another address, and every step that is
\* no completed Store, leaves what Load of an address gives unchanged.  So
\* store(a, v) followed by a statement evaluating load(a) yields v twice.
C3_StoreLoadRoundTrip ==
    /\ [](\A a \in Addrs, v \in 1 .. MaxVal :
             (/\ Len(statements) >= 2
              /\ statements[1] = StmtStore(Val(a), Val(v))
              /\ statements[2].kind = "Goto"
              /\ statements[2].target = Load(Val(a)))
             => /\ Len(res) < 2 => outcome = "running"
                /\ Len(res) >= 1 => res[1] = v
                /\ Len(res) >= 2 => res[2] = v)
    /\ [][IF Fetch("Store") /\ outcome' = "running"
          THEN \E inp \in StdinContents :
                   LET reg == eval(statement.reg, inp)
                       val == eval_after(statement.val, inp, reg.rd)
                   IN  /\ reg.ok /\ val.ok
                       /\ res' = Append(res, val.v)
                       /\ load(reg.v, registers') = Value(val.v, FALSE)
                       /\ \A b \in AddrSpace \ {reg.v} :
                              load(b, registers') = load(b, registers)
          ELSE \A b \in AddrSpace : load(b, registers') = load(b, registers)
         ]_interpVars

\* two Stores to different addresses have run and Load of the first address
\* still gives the first value
C3_Witness ==
    /\ Len(statements) = 2
    /\ statements[1].kind = "Store" /\ statements[2].kind = "Store"
    /\ statements[1].reg # statements[2].reg
    /\ statements[1].val # statements[2].val
    /\ Len(res) = 2
    /\ load(statements[1].reg.v, registers) = Value(statements[1].val.v, FALSE)

\* C4: an Assert whose cond evaluates to exactly 1 yields 1 and the run goes
\* on with the next statement; with any other value the run ends at once in
\* the outcome exit_1337, which only a failed Assert produces, and from which
\* no statement executes and no result is appended.
C4_AssertOutcome ==
    [][/\ Fetch("Assert") =>
            \E inp \in StdinContents :
                LET e == eval(statement.cond, inp)
                IN  \/ ~e.ok /\ outcome' = e.err /\ res' = res
                    \/ /\ e.ok /\ e.v = 1
                       /\ res' = Append(res, 1)
                       /\ outcome' = "running"
                       /\ program_counter' = program_counter + 1
                    \/ /\ e.ok /\ e.v # 1
                       /\ res' = res
                       /\ outcome' = "exit_1337"
       /\ outcome' = "exit_1337" => Fetch("Assert")
       /\ outcome = "exit_1337" => UNCHANGED interpVars
       /\ "exit_1337" \notin Panics \cup {"returned", "running"}
      ]_interpVars

\* `assert 1` has yielded 1 and the failing assert after it has ended the run
C4_Witness ==
    /\ outcome = "exit_1337"
    /\ res = <<1>>
    /\ Len(statements) = 2
    /\ statements[2].kind = "Assert"

\* C5: IfThenElse with cond exactly 1 evaluates only thenExpr and yields its
\* value, with cond exactly 0 only elseExpr, and with any other cond neither
\* branch and yields 0: the step's result, panic and use of stdin are those
\* of cond and of the chosen branch alone.
C5_IfThenElse ==
    [][Fetch("IfThenElse") =>
          \E inp \in StdinContents :
              LET c == eval(statement.cond, inp)
                  chosen == IF c.v = 1 THEN <<statement.then>>
                            ELSE IF c.v = 0 THEN <<statement.else>>
                            ELSE <<>>
              IN  \/ ~c.ok /\ outcome' = c.err
                  \/ /\ c.ok /\ chosen = <<>>
                     /\ res' = Append(res, 0)
                     /\ outcome' = "running"
                     /\ stdin' = IF c.rd THEN "eof" ELSE stdin
                  \/ /\ c.ok /\ chosen # <<>>
                     /\ LET b == eval_after(chosen[1], inp, c.rd)
                        IN  /\ stdin' = IF c.rd \/ b.rd THEN "eof" ELSE stdin
                            /\ IF b.ok
                               THEN res' = Append(res, b.v) /\ outcome' = "running"
                               ELSE res' = res /\ outcome' = b.err
      ]_interpVars

\* `if 1 then goto get_input else goto x` has yielded the input it read, and
\* the unbound x of the else branch was never looked up
C5_Witness ==
    /\ Len(statements) >= 1
    /\ statements[1] = StmtIfThenElse(Val(1), GetInput, Var("x"))
    /\ res = <<2>>
    /\ stdin = "eof"
    /\ outcome = "running"

\* C6: with `goto 0` as the only statement the run never ends: between
\* executions the counter is 0 again and never len(statements), the loop can
\* always execute the statement once more, and each execution appends one
\* more result 0.
C6_GotoZeroLoops ==
    /\ [](statements = <<StmtGoto(Val(0))>> =>
             /\ outcome = "running"
             /\ program_counter = 0
             /\ \A i \in 1 .. Len(res) : res[i] = 0
             /\ Len(res) < MaxSteps => ENABLED ExecGoto)
    /\ [][statements = <<StmtGoto(Val(0))>> => res' = Append(res, 0)]_interpVars

\* `goto 0` has run as often as the model lets a run go on and is back at 0
C6_Witness ==
    /\ statements = <<StmtGoto(Val(0))>>
    /\ Len(res) = MaxSteps
    /\ program_counter = 0
    /\ outcome = "running"

\* C7: the program `goto 1` alone is an infinite loop: its run never reaches
\* the terminal condition program_counter = len(statements).
C7_GotoOneLoops ==
    statements = <<StmtGoto(Val(1))>> => program_counter # Len(statements)

\* C8: the run starts with the counter at 0; while the counter is below
\* len(statements) a step executes the statement at the counter, which is
\* incremented before the statement is evaluated, and a completed execution
\* appends exactly one result after those already there; after a statement
\* other than Goto at index i the counter is i + 1, after a Goto it is the
\* target, which is the result appended; at len(statements) or beyond the
\* loop ends with res as it is.
C8_RunLoop ==
    /\ program_counter = 0 /\ res = <<>>
    /\ [][outcome = "running" =>
            IF program_counter >= Len(statements)
            THEN /\ outcome' = "returned"
                 /\ res' = res
                 /\ program_counter' = program_counter
            ELSE /\ outcome' = "running" =>
                      /\ Len(res') = Len(res) + 1
                      /\ SubSeq(res', 1, Len(res)) = res
                      /\ IF statement.kind = "Goto"
                         THEN program_counter' = res'[Len(res')]
                         ELSE program_counter' = program_counter + 1
                 /\ outcome' # "running" =>
                      /\ res' = res
                      /\ program_counter' = program_counter + 1
         ]_interpVars

\* a statement other than Goto at index 0 and a Goto back to index 0 have
\* run in turn: three executions, three results, the counter at 1 again
C8_Witness ==
    /\ Len(statements) = 2
    /\ statements[1].kind = "Store"
    /\ statements[2] = StmtGoto(Val(0))
    /\ Len(res) = 3
    /\ res[2] = 0
    /\ program_counter = 1

\* C9: a Goto whose target is greater than len(statements) fails with an
\* out-of-range error, so the run does not go on and does not return; a
\* target equal to len(statements) is appended and ends the run normally.
C9_GotoOutOfRange ==
    [][Fetch("Goto") /\ statement.target.kind = "Val" =>
          LET t == statement.target.v
          IN  /\ t > Len(statements) => outcome' \notin {"running", "returned"}
              /\ t = Len(statements) =>
                    /\ res' = Append(res, t)
                    /\ program_counter' = Len(statements)
                    /\ outcome' = "running"
      ]_interpVars

\* C10: between statement executions program_counter is an index into
\* statements or exactly len(statements), never more.
C10_CounterInRange ==
    outcome = "running" => program_counter <= Len(statements)

\* C11: run-time failures (unbound Var, absent register, division by zero,
\* overflow of + - *) reach the caller of the run as error values and never
\* abort it: no run ends by a panic.
C11_FailuresAreValues ==
    outcome \notin Panics

\* C18: IfThenElse never redirects control flow: whatever its cond and its
\* branches give, after the statement at index i has executed the counter is
\* i + 1.
C18_IfThenElseFallsThrough ==
    [][Fetch("IfThenElse") => program_counter' = program_counter + 1]_interpVars

\* `if 1 then goto get_input else goto x` at index 0 has yielded 0, the input
\* it read, and the counter is 1, not 0
C18_Witness ==
    /\ Len(statements) = 2
    /\ statements[1] = StmtIfThenElse(Val(1), GetInput, Var("x"))
    /\ res = <<0>>
    /\ program_counter = 1
    /\ outcome = "running"

\* C19: no statement changes statements; only Store changes registers and
\* only Assignment changes vars; no step removes a key from registers or
\* from vars.
C19_Frame ==
    [][/\ statements' = statements
       /\ ~Fetch("Store") => registers' = registers
       /\ ~Fetch("Assignment") => vars' = vars
       /\ DOMAIN registers \subseteq DOMAIN registers'
       /\ DOMAIN vars \subseteq DOMAIN vars'
      ]_interpVars

\* two Stores have created two registers, and both are there when the run
\* has returned
C19_Witness ==
    /\ outcome = "returned"
    /\ Len(res) = 2
    /\ DOMAIN registers = {1, 2}

(***************************************************************************)
(* The scanner (src/src/scanner.rs).  A byte is a string of one character, *)
(* the source a sequence of bytes.  sc is the record of the Scanner's      *)
(* fields.  The report of an invalid byte prints a line and changes        *)
(* nothing of the scanner; it is left out.                                 *)
(***************************************************************************)
\* longest source text drawn in ScanInit
MaxSrc == 4

Bytes == {"x", "i", "f", "1", ":", "=", "+", "@", " ", "\n"}
Sources == SeqsUpTo(Bytes, MaxSrc)

Digits == {"0", "1", "2", "3", "4", "5", "6", "7", "8", "9"}
Letters == {"a", "b", "c", "d", "e", "f", "g", "h", "i", "j", "k", "l", "m",
            "n", "o", "p", "q", "r", "s", "t", "u", "v", "w", "x", "y", "z",
            "A", "B", "C", "D", "E", "F", "G", "H", "I", "J", "K", "L", "M",
            "N", "O", "P", "Q", "R", "S", "T", "U", "V", "W", "X", "Y", "Z",
            "_"}
Blanks == {" ", "\r", "\t"}
NUL == "\\0"

DigitValue(c) ==
    CASE c = "0" -> 0 [] c = "1" -> 1 [] c = "2" -> 2 [] c = "3" -> 3
      [] c = "4" -> 4 [] c = "5" -> 5 [] c = "6" -> 6 [] c = "7" -> 7
      [] c = "8" -> 8 [] c = "9" -> 9

\* String::from_utf8 of a run of bytes
RECURSIVE Text(_)
Text(bs) == IF bs = <<>> THEN "" ELSE bs[1] \o Text(Tail(bs))

\* the decimal number a run of digits writes
RECURSIVE Decimal(_)
Decimal(ds) ==
    IF ds = <<>> THEN 0
    ELSE 10 * Decimal(SubSeq(ds, 1, Len(ds) - 1)) + DigitValue(ds[Len(ds)])

SingleChar(c) ==
    CASE c = "(" -> "LeftParen" [] c = ")" -> "RightParen" [] c = "," -> "Comma"
      [] c = "+" -> "Plus" [] c = "-" -> "Minus" [] c = "*" -> "Star"
      [] c = "/" -> "Slash"

Keyword(ident) ==
    CASE ident = "store" -> "Store" [] ident = "goto" -> "Goto"
      [] ident = "assert" -> "Assert" [] ident = "if" -> "If"
      [] ident = "then" -> "Then" [] ident = "else" -> "Else"
      [] ident = "load" -> "Load" [] ident = "get_input" -> "GetInput"
      [] OTHER -> "Identifier"

\* Scanner::new
NewScanner(src) == [source |-> src, start |-> 0, current |-> 0, line |-> 1, column |-> 0]

is_at_end(sc) == sc.current >= Len(sc.source)

peek(sc) == IF is_at_end(sc) THEN NUL ELSE sc.source[sc.current + 1]

\* matches: whether the current byte is the expected one, which is then consumed
matches(sc, expected) == ~is_at_end(sc) /\ sc.source[sc.current + 1] = expected

\* the loops of peek and advance over a run of bytes of one class
RECURSIVE RunEnd(_, _)
RunEnd(sc, class) ==
    IF peek(sc) \in class THEN RunEnd([sc EXCEPT !.current = @ + 1], class) ELSE sc

\* the slice self.source[self.start..self.current]
Lexeme(sc) == Text(SubSeq(sc.source, sc.start + 1, sc.current))

\* the last arm of scan_token: the token returned and `self.start = self.current`
Emit(sc, fields) ==
    [kind |-> "token",
     token |-> fields @@ [lexeme |-> Lexeme(sc), line |-> sc.line],
     sc |-> [sc EXCEPT !.start = sc.current]]

\* the arm of TokenType::Ignore: nothing is returned and the loop goes on
Ignore(sc) == [kind |-> "skip", sc |-> sc]

\* an invalid byte that ends the scan
InvalidStops(sc) == [kind |-> "err", sc |-> sc]

\* the arm of TokenType::Invalid: the byte is reported and the loop goes on
Invalid(sc) == [kind |-> "skip", sc |-> sc]

\* one turn of the loop of scan_token, after the test that advance makes of
\* the index: a token, a conversion error, or nothing (skip)
scan_byte(sc) ==
    LET c == sc.source[sc.current + 1]
        adv == [sc EXCEPT !.current = @ + 1]
    IN  CASE c \in {"(", ")", ",", "+", "-", "*", "/"} ->
               Emit(adv, [token_type |-> SingleChar(c)])
          [] c = ":" ->
               IF matches(adv, "=")
               THEN Emit([adv EXCEPT !.current = @ + 1], [token_type |-> "Assign"])
               ELSE Invalid(adv)
          [] c \in Blanks -> Ignore([adv EXCEPT !.start = @ + 1])
          [] c = "\n" ->
               Ignore([adv EXCEPT !.line = @ + 1, !.column = 1, !.start = 0])
          [] c \in Digits ->
               LET run == RunEnd(adv, Digits)
                   nums == Decimal(SubSeq(sc.source, sc.current + 1, run.current))
               IN  IF nums > MaxWord THEN [kind |-> "err", sc |-> run]
                   ELSE Emit(run, [token_type |-> "Value", val |-> nums])
          [] c \in Letters ->
               LET run == RunEnd(adv, Letters \cup Digits)
                   ident == Text(SubSeq(sc.source, sc.current + 1, run.current))
               IN  IF Keyword(ident) = "Identifier"
                   THEN Emit(run, [token_type |-> "Identifier", ident |-> ident])
                   ELSE Emit(run, [token_type |-> Keyword(ident)])
          [] OTHER -> Invalid(adv)

\* scan_token: the next token, a conversion error, or the panic of advance
\* indexing source at its end
RECURSIVE scan_token(_)
scan_token(sc) ==
    IF sc.current >= Len(sc.source) THEN [kind |-> "panic", sc |-> sc]
    ELSE LET r == scan_byte(sc)
         IN  IF r.kind = "skip" THEN scan_token(r.sc) ELSE r

\* Scanner::next
scanner_next(sc) ==
    IF is_at_end(sc) THEN [kind |-> "none", sc |-> sc]
    ELSE LET r == scan_token(sc)
         IN  IF r.kind = "err" THEN [kind |-> "none", sc |-> r.sc] ELSE r

self == [source |-> source, start |-> start, current |-> current, line |-> line,
         column |-> column]

ScanInit ==
    /\ source \in Sources
    /\ start = 0 /\ current = 0 /\ line = 1 /\ column = 0
    /\ tokens = <<>>
    /\ scan_outcome = "pulling"
    /\ statements = <<>> /\ registers = EmptyMap /\ vars = EmptyMap
    /\ program_counter = 0 /\ res = <<>> /\ outcome = "returned"
    /\ stdin = "unread" /\ overflow_checks = FALSE
    /\ ParseIdle

\* one pull on the iterator, by a consumer that stops at the first None
ScannerNext ==
    /\ scan_outcome = "pulling"
    /\ LET r == scanner_next(self)
       IN  /\ start' = r.sc.start
           /\ current' = r.sc.current
           /\ line' = r.sc.line
           /\ column' = r.sc.column
           /\ tokens' = IF r.kind = "token" THEN Append(tokens, r.token) ELSE tokens
           /\ scan_outcome' = CASE r.kind = "token" -> "pulling"
                                [] r.kind = "none" -> "none"
                                [] r.kind = "panic" -> "index_out_of_bounds"
    /\ UNCHANGED <<source, interpVars, parseVars>>

ScanNext == ScannerNext

SpecScan == ScanInit /\ [][ScanNext]_allVars

(***************************************************************************)
(* Properties of the scanner.                                              *)
(***************************************************************************)
\* whether the byte at index i (from 0) starts no token: a blank, a newline,
\* a `:` with no `=` after it, or a byte of no token at all
StartsNoToken(src, i) ==
    LET c == src[i + 1]
    IN  /\ c \notin {"(", ")", ",", "+", "-", "*", "/"} \cup Digits \cup Letters
        /\ ~(c = ":" /\ i + 1 < Len(src) /\ src[i + 2] = "=")

\* the index of the first byte at or after p that starts a token, Len(src)
\* when there is none
RECURSIVE FirstTokenByte(_, _)
FirstTokenByte(src, p) ==
    IF p >= Len(src) THEN Len(src)
    ELSE IF StartsNoToken(src, p) THEN FirstTokenByte(src, p + 1)
    ELSE p

SameToken(a, b) ==
    /\ a.token_type = b.token_type
    /\ a.token_type = "Value" => a.val = b.val
    /\ a.token_type = "Identifier" => a.ident = b.ident

C16_EndsNormally ==
    scan_outcome # "index_out_of_bounds"

\* C17: the lexeme of every token is the source bytes of that token alone,
\* from the first byte of the token to its last.
C17_LexemeIsTokenText ==
    [][scan_outcome = "pulling" /\ Len(tokens') = Len(tokens) + 1 =>
          tokens'[Len(tokens')].lexeme =
              Text(SubSeq(source, FirstTokenByte(source, current) + 1, current'))
      ]_scanVars

(***************************************************************************)
(* The parser (src/src/parser.rs).  toks is what the Peekable<Scanner> has *)
(* still to give; every operator returns what it parsed, or its error, and *)
(* the tokens left.  A call of unwrap on a missing token is a panic.       *)
(***************************************************************************)
Ok(node, rest) == [kind |-> "ok", node |-> node, rest |-> rest]
err_expr(rest) == [kind |-> "err", err |-> [type |-> "Expr"], rest |-> rest]
err_stmt(rest) == [kind |-> "err", err |-> [type |-> "Stmt"], rest |-> rest]
err_expected(tt, rest) ==
    [kind |-> "err", err |-> [type |-> "Expected", token_type |-> tt], rest |-> rest]
unwrap_none(rest) == [kind |-> "panic", rest |-> rest]

BINARY_OPS == {"Plus", "Minus", "Star", "Slash"}

\* binding powers that group to the right
binary_binding_power_right(token_type) ==
    IF token_type \in {"Plus", "Minus"} THEN <<2, 1>> ELSE <<4, 3>>

\* binding powers with the two levels exchanged
binary_binding_power_swapped(token_type) ==
    IF token_type \in {"Plus", "Minus"} THEN <<3, 4>> ELSE <<1, 2>>

\* binary_binding_power, for the tokens of BINARY_OPS
binary_binding_power(token_type) ==
    IF token_type \in {"Plus", "Minus"} THEN <<1, 2>> ELSE <<3, 4>>

\* check and expect
expect(toks, tt) ==
    IF toks # <<>> /\ toks[1].token_type = tt
    THEN Ok(tt, Tail(toks))
    ELSE err_expected(tt, toks)

\* the test that ends the loop of ops in front of an operator
Breaks(left_binding_power, min_binding_power) ==
    left_binding_power < min_binding_power

RECURSIVE ops(_, _)
RECURSIVE ops_loop(_, _, _)

\* the loop of ops: lhs is the expression so far
ops_loop(toks, lhs, min_binding_power) ==
    IF toks = <<>> THEN Ok(lhs, toks)
    ELSE LET op == toks[1]
         IN  IF op.token_type \in BINARY_OPS
             THEN LET bp == binary_binding_power(op.token_type)
                  IN  IF Breaks(bp[1], min_binding_power) THEN Ok(lhs, toks)
                      ELSE LET rhs == ops(Tail(toks), bp[2])
                           IN  IF rhs.kind # "ok" THEN rhs
                               ELSE ops_loop(rhs.rest,
                                             [kind |-> "Binary", lhs |-> lhs,
                                              op |-> op, rhs |-> rhs.node],
                                             min_binding_power)
             ELSE Ok(lhs, toks)

ops(toks, min_binding_power) ==
    IF toks = <<>> THEN err_expr(toks)
    ELSE CASE toks[1].token_type = "Value" ->
                ops_loop(Tail(toks), Val(toks[1].val), min_binding_power)
           [] toks[1].token_type = "Identifier" ->
                ops_loop(Tail(toks), Var(toks[1].ident), min_binding_power)
           [] OTHER -> err_expr(Tail(toks))

RECURSIVE expression(_)

\* The body of a parsing function is a chain of steps, each ended by the ?
\* operator: r is the result so far, with the expressions parsed in r.node.
and_expect(r, tt) ==
    IF r.kind # "ok" THEN r
    ELSE LET e == expect(r.rest, tt)
         IN  IF e.kind = "ok" THEN Ok(r.node, e.rest) ELSE e

and_expression(r) ==
    IF r.kind # "ok" THEN r
    ELSE LET e == expression(r.rest)
         IN  IF e.kind = "ok" THEN Ok(Append(r.node, e.node), e.rest) ELSE e

\* a panic or an error of a sub-parser ends the caller with the same result
Failed(r) == r.kind # "ok"

unary_of(op, r) ==
    IF Failed(r) THEN r
    ELSE Ok([kind |-> "Unary", op |-> op, operand |-> r.node[1]], r.rest)

\* unary: the operator token, then a full expression
unary(toks) == unary_of(toks[1], and_expression(Ok(<<>>, Tail(toks))))

load_of(r) == IF Failed(r) THEN r ELSE Ok(Load(r.node[1]), r.rest)

\* load: `load`, `(`, an expression, `)`
parser_load(toks) ==
    load_of(and_expect(and_expression(and_expect(Ok(<<>>, Tail(toks)),
                                                 "LeftParen")),
                       "RightParen"))

\* expression: dispatch on the token peeked
expression(toks) ==
    IF toks = <<>> THEN err_expr(toks)
    ELSE CASE toks[1].token_type = "Load" -> parser_load(toks)
           [] toks[1].token_type = "GetInput" -> Ok(GetInput, toks)
           [] toks[1].token_type \in {"Identifier", "Value"} -> ops(toks, 0)
           [] toks[1].token_type \in {"Plus", "Minus"} -> unary(toks)
           [] OTHER -> err_expr(toks)

assignment_of(identifier, r) ==
    IF Failed(r) THEN r ELSE Ok(StmtAssignment(identifier, r.node[1]), r.rest)

\* assign: the token after the identifier is taken with unwrap
assign(toks, identifier) ==
    IF toks = <<>> THEN unwrap_none(toks)
    ELSE IF toks[1].token_type = "Assign"
         THEN assignment_of(identifier, and_expression(Ok(<<>>, Tail(toks))))
         ELSE err_stmt(Tail(toks))

store_of(r) ==
    IF Failed(r) THEN r ELSE Ok(StmtStore(r.node[1], r.node[2]), r.rest)

store(toks) ==
    store_of(and_expect(and_expression(and_expect(and_expression(
        and_expect(Ok(<<>>, toks), "LeftParen")), "Comma")), "RightParen"))

goto_of(r) == IF Failed(r) THEN r ELSE Ok(StmtGoto(r.node[1]), r.rest)

goto(toks) == goto_of(and_expression(Ok(<<>>, toks)))

assert_of(r) == IF Failed(r) THEN r ELSE Ok(StmtAssert(r.node[1]), r.rest)

parser_assert(toks) == assert_of(and_expression(Ok(<<>>, toks)))

if_of(r) ==
    IF Failed(r) THEN r
    ELSE Ok(StmtIfThenElse(r.node[1], r.node[2], r.node[3]), r.rest)

parser_if(toks) ==
    if_of(and_expression(and_expect(and_expect(and_expression(
        and_expect(and_expect(and_expression(Ok(<<>>, toks)), "Then"), "Goto")),
        "Else"), "Goto")))

\* statement: the first token is consumed, whatever it is
parser_statement(toks) ==
    IF toks = <<>> THEN err_stmt(toks)
    ELSE CASE toks[1].token_type = "Identifier" -> assign(Tail(toks), toks[1])
           [] toks[1].token_type = "Store" -> store(Tail(toks))
           [] toks[1].token_type = "Goto" -> goto(Tail(toks))
           [] toks[1].token_type = "Assert" -> parser_assert(Tail(toks))
           [] toks[1].token_type = "If" -> parser_if(Tail(toks))
           [] OTHER -> err_stmt(Tail(toks))

\* the token types synchronize stops in front of
SyncPoints == {"Assign", "Store", "Goto", "Assert", "If"}

RECURSIVE SkipToSyncPoint(_)
\* the while loop of synchronize
SkipToSyncPoint(toks) ==
    IF toks = <<>> THEN toks
    ELSE IF toks[1].token_type \in SyncPoints THEN toks
         ELSE SkipToSyncPoint(Tail(toks))

\* synchronize: one token is dropped unseen, then the loop
synchronize(toks) == SkipToSyncPoint(IF toks = <<>> THEN toks ELSE Tail(toks))

RECURSIVE parser_next(_)

\* Parser::next on the result r of statement: the statement, or None at the
\* end of the tokens, or synchronize and try again
next_of(r) ==
    IF r.kind = "ok" THEN [kind |-> "some", stmt |-> r.node, rest |-> r.rest]
    ELSE IF r.kind = "panic" THEN r
    ELSE IF r.rest = <<>> THEN [kind |-> "none", rest |-> r.rest]
    ELSE parser_next(synchronize(r.rest))

parser_next(toks) == next_of(parser_statement(toks))

(***************************************************************************)
(* The parser as a state machine: a parser is built over a token stream,   *)
(* and then either expression is called on it once (as the tests of        *)
(* parser.rs do) or statements are pulled from it until None.              *)
(***************************************************************************)
MaxExprToks == 5
MaxStmtToks == 4

ValueToken(v) == [token_type |-> "Value", val |-> v]

\* the tokens of arithmetic
ExprTokens ==
    {ValueToken(1), Identifier("x")} \cup {OpToken(t) : t \in BINARY_OPS}

\* the tokens of short statements, and a token no statement starts with
StmtTokens ==
    {Identifier("x"), ValueToken(1), OpToken("Assign"), OpToken("Goto"),
     OpToken("Assert"), OpToken("GetInput"), OpToken("RightParen")}

\* `store(1, 1)`, `if 1 then goto 1 else goto 1` and `x := load(1)`
StoreOnes ==
    <<OpToken("Store"), OpToken("LeftParen"), ValueToken(1), OpToken("Comma"),
      ValueToken(1), OpToken("RightParen")>>
IfOnes ==
    <<OpToken("If"), ValueToken(1), OpToken("Then"), OpToken("Goto"),
      ValueToken(1), OpToken("Else"), OpToken("Goto"), ValueToken(1)>>
AssignLoad ==
    <<Identifier("x"), OpToken("Assign"), OpToken("Load"), OpToken("LeftParen"),
      ValueToken(1), OpToken("RightParen")>>
Samples == {StoreOnes, IfOnes, AssignLoad}

\* what may stand where a sample is cut off: nothing, or a token that no
\* place of a sample asks for
Wrong == {<<>>, <<ValueToken(2)>>, <<OpToken("Assert")>>}

\* every sample cut off after k tokens, the end or a wrong token next
Fragments ==
    UNION {{SubSeq(sample, 1, k) \o w : k \in 0 .. Len(sample), w \in Wrong} :
               sample \in Samples}

TokenStreams ==
    SeqsUpTo(ExprTokens, MaxExprToks) \cup SeqsUpTo(StmtTokens, MaxStmtToks)
        \cup Fragments

\* Parser::new, while the interpreter and the scanner of this run rest
ParseInit ==
    /\ given \in TokenStreams
    /\ scanner = given
    /\ stmts = <<>>
    /\ expr = <<>>
    /\ parse_outcome = "pulling"
    /\ ScanIdle
    /\ statements = <<>>
    /\ registers = EmptyMap
    /\ vars = EmptyMap
    /\ program_counter = 0
    /\ res = <<>>
    /\ outcome = "returned"
    /\ stdin = "unread"
    /\ overflow_checks = FALSE

\* one call of Parser::next
ParserNext ==
    /\ parse_outcome = "pulling"
    /\ LET r == parser_next(scanner)
       IN  /\ scanner' = r.rest
           /\ stmts' = IF r.kind = "some" THEN Append(stmts, r.stmt) ELSE stmts
           /\ parse_outcome' = CASE r.kind = "some" -> "pulling"
                                 [] r.kind = "none" -> "none"
                                 [] r.kind = "panic" -> "unwrap_none"
    /\ UNCHANGED <<given, expr, interpVars, scanVars>>

\* one call of expression on a parser just built
ParserExpression ==
    /\ parse_outcome = "pulling"
    /\ scanner = given
    /\ stmts = <<>>
    /\ LET r == expression(scanner)
       IN  /\ scanner' = r.rest
           /\ expr' = r
           /\ parse_outcome' = "expression"
    /\ UNCHANGED <<given, stmts, interpVars, scanVars>>

\* one call of statement on a parser just built
ParserStatement ==
    /\ parse_outcome = "pulling"
    /\ scanner = given
    /\ stmts = <<>>
    /\ LET r == parser_statement(scanner)
       IN  /\ scanner' = r.rest
           /\ expr' = r
           /\ parse_outcome' = "statement"
    /\ UNCHANGED <<given, stmts, interpVars, scanVars>>

\* the last branch of Parser::next, up to the return of synchronize: the
\* statement has failed short of the end of the tokens (its error, with the
\* tokens left at the failure, is kept in expr) and synchronize has run
ParserSynchronize ==
    /\ parse_outcome = "pulling"
    /\ scanner = given
    /\ stmts = <<>>
    /\ LET r == parser_statement(scanner)
       IN  /\ r.kind = "err"
           /\ r.rest # <<>>
           /\ scanner' = synchronize(r.rest)
           /\ expr' = r
           /\ parse_outcome' = "synchronized"
    /\ UNCHANGED <<given, stmts, interpVars, scanVars>>

ParseNext ==
    \/ ParserNext
    \/ ParserExpression
    \/ ParserStatement
    \/ ParserSynchronize

SpecParse == ParseInit /\ [][ParseNext]_allVars

\* the expression an atom token stands for
Atom(token) ==
    IF token.token_type = "Value" THEN Val(token.val) ELSE Var(token.ident)

IsAtom(token) == token.token_type \in {"Value", "Identifier"}

\* the token stream is atom, operator of ms, atom, operator of ps, atom
Shape(toks, ms, ps) ==
    /\ Len(toks) = 5
    /\ IsAtom(toks[1]) /\ IsAtom(toks[3]) /\ IsAtom(toks[5])
    /\ toks[2].token_type \in ms
    /\ toks[4].token_type \in ps

\* toks of five tokens, grouped to the left: (a op b) op c
GroupedLeft(toks) ==
    Binary(Binary(Atom(toks[1]), toks[2].token_type, Atom(toks[3])),
           toks[4].token_type, Atom(toks[5]))

\* toks of five tokens, grouped to the right: a op (b op c)
GroupedRight(toks) ==
    Binary(Atom(toks[1]), toks[2].token_type,
           Binary(Atom(toks[3]), toks[4].token_type, Atom(toks[5])))

\* C12: for all atoms a, b, c, every m in {*, /} and every p in {+, -},
\* expression on `a m b p c` gives Binary(Binary(a, m, b), p, c) and on
\* `a p b m c` gives Binary(a, p, Binary(b, m, c)), the whole stream consumed.
C12_Precedence ==
    parse_outcome = "expression" =>
        /\ Shape(given, {"Star", "Slash"}, {"Plus", "Minus"}) =>
               expr = Ok(GroupedLeft(given), <<>>)
        /\ Shape(given, {"Plus", "Minus"}, {"Star", "Slash"}) =>
               expr = Ok(GroupedRight(given), <<>>)

\* `1 * 1 + 1` has been parsed as (1 * 1) + 1
C12_Witness ==
    /\ parse_outcome = "expression"
    /\ given = <<ValueToken(1), OpToken("Star"), ValueToken(1),
                 OpToken("Plus"), ValueToken(1)>>
    /\ expr.kind = "ok"
    /\ expr.node = Binary(Binary(Val(1), "Star", Val(1)), "Plus", Val(1))
    /\ scanner = <<>>

\* the token types a statement starts with
StatementStarts == {"Identifier", "Store", "Goto", "Assert", "If"}

\* the tokens of `x := 1` and of `goto 1`
AssignOne == <<Identifier("x"), OpToken("Assign"), ValueToken(1)>>
GotoOne == <<OpToken("Goto"), ValueToken(1)>>

\* C13: when the token stream is one stray token that cannot start a
\* statement, immediately followed by `x := 1` or by `goto 1`, the statements
\* pulled from the parser up to None are exactly that valid statement.
C13_Recovery ==
    /\ parse_outcome = "none"
    /\ given # <<>>
    /\ given[1].token_type \notin StatementStarts
    => /\ Tail(given) = AssignOne => stmts = <<StmtAssignment(Identifier("x"), Val(1))>>
       /\ Tail(given) = GotoOne => stmts = <<StmtGoto(Val(1))>>

\* C14: no pull on the parser ends in a panic: every pull gives a statement
\* or None, whatever the token stream.
C14_NeverAborts == parse_outcome # "unwrap_none"

\* the minimum binding powers ops is called with: 0 by expression, and the
\* right binding power of the operator just consumed by ops itself
MinBindingPowers ==
    {0} \cup {binary_binding_power(t)[2] : t \in BINARY_OPS}

\* C20: in every call of ops the parser can make, an operator that the loop
\* does not break in front of has a left binding power strictly above the
\* caller's minimum; and expression on `a o1 b o2 c` with o1 and o2 of the
\* same level gives Binary(Binary(a, o1, b), o2, c).
C20_LeftAssociative ==
    /\ \A t \in BINARY_OPS, min \in MinBindingPowers :
           ~Breaks(binary_binding_power(t)[1], min) =>
               binary_binding_power(t)[1] > min
    /\ parse_outcome = "expression" =>
           /\ Shape(given, {"Plus", "Minus"}, {"Plus", "Minus"}) =>
                  expr = Ok(GroupedLeft(given), <<>>)
           /\ Shape(given, {"Star", "Slash"}, {"Star", "Slash"}) =>
                  expr = Ok(GroupedLeft(given), <<>>)

\* `x - 1 - x` has been parsed as (x - 1) - x
C20_Witness ==
    /\ parse_outcome = "expression"
    /\ given = <<Identifier("x"), OpToken("Minus"), ValueToken(1),
                 OpToken("Minus"), Identifier("x")>>
    /\ expr.kind = "ok"
    /\ expr.node = Binary(Binary(Var("x"), "Minus", Val(1)), "Minus", Var("x"))
    /\ scanner = <<>>

\* C21: when synchronize returns, the token stream is exhausted or its next
\* token can start a statement, and none of the tokens discarded since the
\* failure point is a token that can start a statement.
C21_SynchronizeToBoundary ==
    parse_outcome = "synchronized" =>
        /\ scanner = <<>> \/ scanner[1].token_type \in StatementStarts
        /\ \A i \in 1 .. (Len(expr.rest) - Len(scanner)) :
               expr.rest[i].token_type \notin StatementStarts

\* the token kinds the grammar asks for by name
Required == {"LeftParen", "RightParen", "Comma", "Then", "Else", "Assign"}

\* C22: statement on `store(1, 1)`, `if 1 then goto 1 else goto 1` or
\* `x := load(1)` cut off in front of a parenthesis, the comma, `then`, `else`
\* or `:=`, with the end of the tokens or another token there instead, fails
\* with Expected carrying the kind of the missing token.
C22_ExpectedToken ==
    parse_outcome = "statement" =>
        \A sample \in Samples, w \in Wrong :
            \A k \in 0 .. (Len(sample) - 1) :
                /\ given = SubSeq(sample, 1, k) \o w
                /\ sample[k + 1].token_type \in Required
                => /\ expr.kind = "err"
                   /\ expr.err = [type |-> "Expected",
                                  token_type |-> sample[k + 1].token_type]

\* A consumer that pulls statements until None (collect, or the Display of
\* the Parser): while a pull is possible it is made.
PullInit == ParseInit /\ given \in SeqsUpTo(StmtTokens, MaxStmtToks - 1)

SpecPull == PullInit /\ [][ParserNext]_allVars /\ WF_allVars(ParserNext)

\* C23: pulling statements from the parser comes to an end: after finitely
\* many pulls the parser has returned None, with the token stream exhausted.
C23_PullsTerminate == <>(parse_outcome = "none" /\ scanner = <<>>)

\* `goto get_input` followed by `assert 1`
GotoInputAssertOne ==
    <<OpToken("Goto"), OpToken("GetInput"), OpToken("Assert"), ValueToken(1)>>

\* C24: a pull that yields a statement leaves no token of that statement in
\* the stream: a statement just yielded whose expression is get_input is not
\* followed by its own get_input token, and pulling `goto get_input` then
\* `assert 1` to the end yields both statements in order.
C24_ExpressionConsumed ==
    /\ parse_outcome = "none" /\ given = GotoInputAssertOne =>
           stmts = <<StmtGoto(GetInput), StmtAssert(Val(1))>>
    /\ /\ parse_outcome = "pulling"
       /\ Len(stmts) = 1
       /\ stmts[1] \in {StmtGoto(GetInput), StmtAssert(GetInput)}
       /\ Len(given) >= 2
       /\ given[2].token_type = "GetInput"
       => scanner = SubSeq(given, 3, Len(given))

(***************************************************************************)
(* The whole run (src/src/main.rs, run): the tokens of the scanner are     *)
(* collected and a parser is built over them, the statements of the parser *)
(* are collected and an interpreter is built over them and visits them.    *)
(***************************************************************************)
\* most bytes in front of the statement of a source text
MaxLead == 2

\* one statement of each kind, as source text
Texts ==
    {<<"x", ":", "=", "1">>,
     <<"g", "o", "t", "o", " ", "1">>,
     <<"a", "s", "s", "e", "r", "t", " ", "1">>,
     <<"s", "t", "o", "r", "e", "(", "1", ",", "1", ")">>,
     <<"i", "f", " ", "1", " ", "t", "h", "e", "n", " ", "g", "o", "t", "o", " ",
       "1", " ", "e", "l", "s", "e", " ", "g", "o", "t", "o", " ", "1">>}

\* what stands in front of the statement: blanks, newlines, invalid bytes
Leads == SeqsUpTo({" ", "\n", "@"}, MaxLead)

RunSources == {lead \o text : lead \in Leads, text \in Texts}

\* Scanner::new(&code), nothing else built yet
RunInit ==
    /\ source \in RunSources
    /\ start = 0 /\ current = 0 /\ line = 1 /\ column = 0
    /\ tokens = <<>>
    /\ scan_outcome = "pulling"
    /\ ParseIdle
    /\ statements = <<>> /\ registers = EmptyMap /\ vars = EmptyMap
    /\ program_counter = 0 /\ res = <<>> /\ outcome = "returned"
    /\ stdin = "unread" /\ overflow_checks \in BOOLEAN

\* Parser::new over the tokens the scanner gave up to its None
NewParser ==
    /\ scan_outcome = "none"
    /\ scan_outcome' = "collected"
    /\ given' = tokens
    /\ scanner' = tokens
    /\ stmts' = <<>>
    /\ parse_outcome' = "pulling"
    /\ UNCHANGED <<source, start, current, line, column, tokens, expr, interpVars>>

\* Interpreter::new over the statements the parser gave up to its None, and
\* the call of visit
NewInterpreter ==
    /\ scan_outcome = "collected"
    /\ parse_outcome = "none"
    /\ parse_outcome' = "collected"
    /\ statements' = stmts
    /\ registers' = EmptyMap
    /\ vars' = EmptyMap
    /\ program_counter' = 0
    /\ res' = <<>>
    /\ outcome' = "running"
    /\ UNCHANGED <<stdin, overflow_checks, scanner, given, stmts, expr, scanVars>>

RunNext ==
    \/ ScannerNext
    \/ NewParser
    \/ ParserNext
    \/ NewInterpreter
    \/ Next

SpecRun == RunInit /\ [][RunNext]_allVars

\* C25: once the interpreter has executed an assignment that the parser made
\* from the source text, vars has a binding under the name of the identifier,
\* the key by which Var looks it up; and every identifier token of the
\* scanner has its name as its lexeme.
C25_AssignmentKeyIsName ==
    /\ \A i \in 1 .. Len(tokens) :
           tokens[i].token_type = "Identifier" => tokens[i].lexeme = tokens[i].ident
    /\ /\ Len(statements) >= 1
       /\ statements[1].kind = "Assignment"
       /\ program_counter >= 1
       => statements[1].identifier.ident \in DOMAIN vars

=============================================================================
